---- MODULE Spec2Model ----
(***************************************************************************)
(* Model of asana_outlook_integration_script.py: the run of main() over a  *)
(* mail-folder tree (folder resolution, folder collection, paginated       *)
(* message fetch, ledger check, process_message with its attachment relay, *)
(* ledger append), repeated over several runs of the process, with the     *)
(* failures of the external calls and the death of the process as          *)
(* nondeterministic events.                                                *)
(***************************************************************************)
EXTENDS Integers, Sequences, FiniteSets, TLC

VARIABLES
    pc,               \* position of the process in main / process_message
    runNo,            \* number of runs of the process started so far
    faults,           \* number of injected failures so far
    MAIL_FOLDER_PATH, \* configuration: the folder path (a list of display names)
    ledger,           \* PROCESSED_IDS_FILE: the lines of the file, in order
    done,             \* main: the set loaded from the ledger at startup
    tasks,            \* destination: number of tasks created, per message id
    temp,             \* TEMP_DIR: names of the files present
    res_path,         \* get_target_folder_id: path_list
    res_i,            \* get_target_folder_id: index of the segment at hand
    folder_id,        \* get_target_folder_id: folder_id
    lookups,          \* folder listings requested by get_target_folder_id (this run)
    folder_ids,       \* main: folder_ids
    folder_paths,     \* main: folder_paths, as a set of <<folder id, path>>
    fidx,             \* main: index into folder_ids of the folder at hand
    job,              \* main: job (the job-number tag of the folder at hand)
    next_url,         \* main: next_url
    data,             \* main: the page at hand (resp.json())
    midx,             \* main: index of the message at hand in the page
    aidx,             \* process_message: index of the attachment at hand
    fetched,          \* page URLs fetched successfully for the folder at hand
    yielded,          \* <<url, index>> of the records the for loop took, folder at hand
    fetchFailed,      \* the page fetch of the folder at hand failed (break)
    created,          \* message ids for which create_task was called in this run
    downloads,        \* <<message id, attachment name>> of the download requests issued
    relayed,          \* <<message id, attachment name>> uploaded to a task
    steps,            \* process_message: the steps gone through for the message at hand
    interrupted,      \* ids whose processing ended after create_task without a ledger line
    pending,          \* interrupted, as it was when the run at hand started
    prevExit,         \* how the run before the one at hand ended
    ledgerAtStart,    \* the identifiers in the ledger file when the run at hand started
    ledgerAtEntry,    \* the ledger file when process_message was last entered
    env,              \* configuration: the required settings that are set
    sections,         \* configuration: the section GIDs (default and the three buckets)
    networked,        \* the process at hand has issued a network request
    section_gid,      \* process_message: section_gid
    body,             \* process_message: body
    filed,            \* process_message: add_task_for_section returned for the task at hand
    status_code,      \* process_message: r.status_code of the last download request
    walked            \* the folders whose walk has ended in this run, with what was fetched

vars == <<pc, runNo, faults, MAIL_FOLDER_PATH, ledger, done, tasks, temp,
          res_path, res_i, folder_id, lookups, folder_ids, folder_paths, fidx,
          job, next_url, data, midx, aidx, fetched, yielded, fetchFailed,
          created, downloads, relayed, steps, interrupted, pending,
          prevExit, ledgerAtStart, ledgerAtEntry, env, sections, networked,
          section_gid, body, filed, status_code, walked>>

----------------------------------------------------------------------------
(* Bounds of the model. *)

MaxRuns == 2        \* runs of the process in one behaviour
MaxFaults == 2      \* injected failures (failed calls, process deaths) in one behaviour
MaxPathLen == 3     \* longest path handed to get_target_folder_id on its own

----------------------------------------------------------------------------
(* Strings whose characters matter are sequences of one-character strings. *)

EndsWith(s, suffix) ==
    /\ Len(s) >= Len(suffix)
    /\ SubSeq(s, Len(s) - Len(suffix) + 1, Len(s)) = suffix

GraphNs == <<"#","m","i","c","r","o","s","o","f","t",".","g","r","a","p","h",".">>
SuffixItemAttachment == <<"I","t","e","m","A","t","t","a","c","h","m","e","n","t">>
TypeFile == GraphNs \o <<"f","i","l","e","A","t","t","a","c","h","m","e","n","t">>
TypeItemCamel == GraphNs \o <<"i","t","e","m","A","t","t","a","c","h","m","e","n","t">>
TypeItemPascal == GraphNs \o SuffixItemAttachment
TypeAbsent == <<>>

\* s[i:] of Python starts with sub
StartsAt(s, i, sub) ==
    /\ i + Len(sub) - 1 <= Len(s)
    /\ SubSeq(s, i, i + Len(sub) - 1) = sub

\* "sub in s" of Python
Contains(s, sub) == \E i \in 1..(Len(s) + 1) : StartsAt(s, i, sub)

UpperCase == <<"A","B","C","D","E","F","G","H","I","J","K","L","M","N","O","P","Q","R","S","T","U","V","W","X","Y","Z">>
LowerCase == <<"a","b","c","d","e","f","g","h","i","j","k","l","m","n","o","p","q","r","s","t","u","v","w","x","y","z">>

\* str.lower() on one character
LowerChar(c) ==
    IF \E i \in 1..Len(UpperCase) : UpperCase[i] = c
    THEN LowerCase[CHOOSE i \in 1..Len(UpperCase) : UpperCase[i] = c]
    ELSE c

\* str.lower()
Lower(s) == [i \in 1..Len(s) |-> LowerChar(s[i])]

NoSubject == <<"(","N","o"," ","S","u","b","j","e","c","t",")">>
KwBudget == <<"b","u","d","g","e","t">>
KwQuotation == <<"q","u","o","t","a","t","i","o","n">>
KwOrderConfirmation == <<"o","r","d","e","r"," ","c","o","n","f","i","r","m","a","t","i","o","n">>

----------------------------------------------------------------------------
(* The mailbox the process reads: folders, their children, their pages.    *)

NoId == "None"
NoLink == <<>>

FolderIdSet == {"fArch", "fInbox", "fOld", "fONova", "fOJob", "fJobs", "fNova", "fJob",
                "fJob2"}

DisplayName(f) ==
    CASE f = "fArch"  -> "Archive"
      [] f = "fInbox" -> "Inbox"
      [] f = "fOld"   -> "2024 Jobs"
      [] f = "fJobs"  -> "2024 Jobs"
      [] f = "fNova"  -> "Nova"
      [] f = "fJob"   -> "2411001"
      [] f = "fJob2"  -> "2411003"
      [] f = "fONova" -> "Nova"
      [] f = "fOJob"  -> "2411002"

RootFolders == <<"fArch", "fInbox">>

ChildFolders(f) ==
    CASE f = "fArch"  -> <<"fOld">>
      [] f = "fInbox" -> <<"fJobs">>
      [] f = "fJobs"  -> <<"fNova">>
      [] f = "fNova"  -> <<"fJob", "fJob2">>
      [] f = "fOld"   -> <<"fONova">>
      [] f = "fONova" -> <<"fOJob">>
      [] OTHER        -> <<>>

Names == {"Archive", "Inbox", "2024 Jobs", "Nova", "Missing"}

MiB == 1024 * 1024

\* An attachment descriptor; hasSize says whether the "size" key is present.
Att(n, t, hs, s) == [name |-> n, type |-> t, hasSize |-> hs, size |-> s]

\* The "body" node of a message record: kind is "dict" (a JSON object), "null"
\* (the key is there with a null value) or "absent" (no "body" key).
BodyNode(k, hc, c) == [kind |-> k, hasContent |-> hc, content |-> c]

\* A message record; hasBody is ('body' in msg), hasSubject and hasPreview say
\* whether the "subject" and "bodyPreview" keys are there.
Msg(i, b, a) ==
    [id |-> i, hasBody |-> b, attachments |-> a,
     hasSubject |-> FALSE, subject |-> <<>>,
     body |-> IF b THEN BodyNode("dict", TRUE, "content") ELSE BodyNode("absent", FALSE, ""),
     hasPreview |-> FALSE, bodyPreview |-> ""]

MsgA == Msg("mA", TRUE, <<>>)
Msg1 == Msg("m1", TRUE, << Att("a1", TypeFile, TRUE, 1 * MiB),
                           Att("a2", TypeFile, TRUE, 4 * MiB),
                           Att("a3", TypeItemCamel, TRUE, 1000) >>)
Msg2 == Msg("m2", TRUE, << Att("a4", TypeFile, TRUE, 3 * MiB),
                           Att("a5", TypeItemPascal, TRUE, 1000),
                           Att("a6", TypeAbsent, FALSE, 0),
                           Att("a7", TypeFile, TRUE, 3 * MiB + 1) >>)
MsgN == Msg("mN", FALSE, <<>>)
Msg3 == Msg("m3", TRUE, <<>>)
Msg4 == Msg("m4", TRUE, <<>>)

MsgIds == {"mA", "m1", "m2", "m3", "m4", "mN"}

\* The pages of a folder's message listing, in chain order.
Pages(f) ==
    CASE f = "fJobs" -> << <<MsgA>> >>
      [] f = "fJob"  -> << <<Msg1, Msg2>>, <<MsgN>>, <<Msg1>> >>
      [] f = "fJob2" -> << <<Msg4>> >>
      [] f = "fOJob" -> << <<Msg3>> >>
      [] OTHER       -> << <<>> >>

----------------------------------------------------------------------------
(* The mail provider's answers. *)

RootUrl == [kind |-> "root", of |-> NoId]
ChildUrl(f) == [kind |-> "children", of |-> f]

\* GET of a folder listing: ok is FALSE for a folder id the server does not know.
FolderListing(url) ==
    IF url.kind = "root" THEN [ok |-> TRUE, value |-> RootFolders]
    ELSE IF url.of \in FolderIdSet THEN [ok |-> TRUE, value |-> ChildFolders(url.of)]
    ELSE [ok |-> FALSE, value |-> <<>>]

\* URL of page k of folder f's message listing; page 1 is ".../messages".
PageUrl(f, k) == <<f, k>>

\* The JSON of a page: its records and its "@odata.nextLink" (NoLink when absent).
PageData(url) ==
    LET f == url[1]
        k == url[2]
    IN  [value |-> Pages(f)[k],
         nextLink |-> IF k < Len(Pages(f)) THEN PageUrl(f, k + 1) ELSE NoLink]

----------------------------------------------------------------------------
(* get_target_folder_id *)

\* a faulty variant: the first child is taken when no display name matches
FirstMatchOrFirst(items, part) ==
    LET hits == {i \in 1..Len(items) : DisplayName(items[i]) = part}
    IN  IF hits = {}
        THEN (IF Len(items) > 0 THEN 1 ELSE 0)
        ELSE CHOOSE i \in hits : \A j \in hits : i <= j

\* next((i for i in items if i.get("displayName") == part), None): index or 0
FirstMatch(items, part) ==
    LET hits == {i \in 1..Len(items) : DisplayName(items[i]) = part}
    IN  IF hits = {} THEN 0 ELSE CHOOSE i \in hits : \A j \in hits : i <= j

\* a faulty variant: every segment is looked up in the root collection
ResolveUrlAlwaysRoot(fid) == RootUrl

\* the URL listed for the segment at hand
ResolveUrl(fid) == IF fid # NoId THEN ChildUrl(fid) ELSE RootUrl

\* main: base_path = MAIL_FOLDER_PATH[:2]
BasePath(path) == SubSeq(path, 1, IF Len(path) < 2 THEN Len(path) ELSE 2)

----------------------------------------------------------------------------
(* collect_folder_ids and map_paths *)

\* a faulty variant: the children are listed, their own children are not
CollectChildrenOnly(f) == <<f>> \o ChildFolders(f)

RECURSIVE ConcatCollected(_, _)
RECURSIVE CollectFolderIds(_)
CollectFolderIds(f) == <<f>> \o ConcatCollected(ChildFolders(f), 1)
ConcatCollected(children, i) ==
    IF i > Len(children) THEN <<>>
    ELSE CollectFolderIds(children[i]) \o ConcatCollected(children, i + 1)

RECURSIVE MapPaths(_, _)
MapPaths(path_so_far, f) ==
    {<<f, path_so_far>>} \cup
    UNION { MapPaths(Append(path_so_far, DisplayName(ChildFolders(f)[i])),
                     ChildFolders(f)[i]) : i \in 1..Len(ChildFolders(f)) }

\* folder_paths.get(fid, [])
PathOfFolder(paths, f) ==
    IF \E e \in paths : e[1] = f
    THEN (CHOOSE e \in paths : e[1] = f)[2]
    ELSE <<>>

\* a faulty variant: a path of 3 segments gives a job tag too
JobOfPathFrom3(path) == IF Len(path) >= 3 THEN path[Len(path)] ELSE ""

\* job of "loc, job = path[-2], path[-1]" when len(path) >= 4, "" otherwise
JobOfPath(path) == IF Len(path) >= 4 THEN path[Len(path)] ELSE ""

\* int(job_num) succeeds
IntParses(s) == s \in {"2411001", "2411002", "2411003"}

----------------------------------------------------------------------------
(* process_message: attachment policy *)

AttachmentCeiling == 3 * 1024 * 1024

\* att.get("size", 0)
SizeOf(att) == IF att.hasSize THEN att.size ELSE 0

\* att.get("@odata.type", "").endswith("ItemAttachment")
IsSkippedType(att) == EndsWith(att.type, SuffixItemAttachment)

\* the attachment passes both "continue" tests and a download is requested
Eligible(att) == ~IsSkippedType(att) /\ ~(SizeOf(att) > AttachmentCeiling)

----------------------------------------------------------------------------
(* process_message: the body of the task and the section it is filed in *)

\* lines 147-162: body_node.get("content", "") for a dict, bodyPreview or "" otherwise
ExtractBody(msg) ==
    IF msg.body.kind = "dict"
    THEN (IF msg.body.hasContent THEN msg.body.content ELSE "")
    ELSE (IF msg.hasPreview /\ msg.bodyPreview # "" THEN msg.bodyPreview ELSE "")

\* msg.get("subject", "(No Subject)")
Subj(msg) == IF msg.hasSubject THEN msg.subject ELSE NoSubject

\* a section GID read from the environment: "None" when the variable is not set
Unset == "None"

\* truth value of a setting read with os.getenv
Truthy(v) == v \notin {Unset, ""}

\* a faulty variant: "quotation" is tested before "budget"
ChooseSectionQuoteFirst(subj, secs) ==
    LET subject_lower == Lower(subj)
    IN  IF Contains(subject_lower, KwQuotation) /\ Truthy(secs.quote)
        THEN secs.quote
        ELSE IF Contains(subject_lower, KwBudget) /\ Truthy(secs.budget)
        THEN secs.budget
        ELSE IF Contains(subject_lower, KwOrderConfirmation) /\ Truthy(secs.order)
        THEN secs.order
        ELSE secs.default

\* lines 179-187: the if / elif chain over subject_lower
ChooseSection(subj, secs) ==
    LET subject_lower == Lower(subj)
    IN  IF Contains(subject_lower, KwBudget) /\ Truthy(secs.budget)
        THEN secs.budget
        ELSE IF Contains(subject_lower, KwQuotation) /\ Truthy(secs.quote)
        THEN secs.quote
        ELSE IF Contains(subject_lower, KwOrderConfirmation) /\ Truthy(secs.order)
        THEN secs.order
        ELSE secs.default

----------------------------------------------------------------------------
(* Configuration, lines 42-72 *)

required_vars == {"TENANT_ID", "CLIENT_ID", "CLIENT_SECRET", "MAIL_USER", "ASANA_PAT",
                  "ASANA_WORKSPACE_GID", "ASANA_PROJECT_GID", "ASANA_SECTION_GID"}

\* a faulty variant: one setting that is set is enough
AnyRequired(e) == \E v \in required_vars : v \in e

\* line 70: all(required_vars)
AllRequired(e) == \A v \in required_vars : v \in e

\* The settings of the environments the process is started in.
EnvChoices == {required_vars, required_vars \ {"ASANA_PAT"}, {"MAIL_USER"}, {}}

Sections(b, q, o) == [default |-> "secDefault", budget |-> b, quote |-> q, order |-> o]

----------------------------------------------------------------------------
(* State *)

Terminal == {"idle", "complete", "notfound", "fatal", "crashed", "exit1"}

ConfigPaths ==
    { <<"Inbox", "2024 Jobs", "Nova", "2411001">>,
      <<"Archive", "2024 Jobs">>,
      <<"Inbox", "Missing", "Nova">>,
      <<"Missing", "2024 Jobs">>,
      <<>> }

NoData == [value |-> <<>>, nextLink |-> NoLink]

RunLocalsInit ==
    /\ done = {}
    /\ res_path = <<>>
    /\ res_i = 1
    /\ folder_id = NoId
    /\ lookups = <<>>
    /\ folder_ids = <<>>
    /\ folder_paths = {}
    /\ fidx = 1
    /\ job = ""
    /\ next_url = NoLink
    /\ data = NoData
    /\ midx = 1
    /\ aidx = 1
    /\ fetched = <<>>
    /\ yielded = <<>>
    /\ fetchFailed = FALSE
    /\ created = {}
    /\ steps = <<>>
    /\ pending = {}
    /\ prevExit = "idle"
    /\ ledgerAtStart = {}
    /\ ledgerAtEntry = <<>>
    /\ networked = FALSE
    /\ section_gid = ""
    /\ body = ""
    /\ filed = FALSE
    /\ status_code = 0
    /\ walked = <<>>

Init ==
    /\ pc = "idle"
    /\ runNo = 0
    /\ faults = 0
    /\ MAIL_FOLDER_PATH \in ConfigPaths
    /\ env \in EnvChoices
    /\ sections = Sections("secBudget", Unset, "secOrder")
    /\ ledger = <<>>
    /\ tasks = [m \in MsgIds |-> 0]
    /\ temp = {}
    /\ downloads = {}
    /\ relayed = {}
    /\ interrupted = {}
    /\ RunLocalsInit

\* a faulty variant: the file is not read, the set starts empty
LoadNothing(file) == {}

\* load_processed_ids, lines 90-94: the set of the lines of the file
LoadProcessedIds(file) == {file[i] : i \in 1..Len(file)}

\* the process is started: lines 267-283
StartRun ==
    /\ pc \in Terminal
    /\ runNo < MaxRuns
    /\ AllRequired(env)
    /\ runNo' = runNo + 1
    /\ networked' = TRUE
    /\ section_gid' = ""
    /\ body' = ""
    /\ filed' = FALSE
    /\ status_code' = 0
    /\ walked' = <<>>
    /\ done' = LoadProcessedIds(ledger)
    /\ prevExit' = pc
    /\ ledgerAtStart' = {ledger[i] : i \in 1..Len(ledger)}
    /\ ledgerAtEntry' = ledger
    /\ res_path' = BasePath(MAIL_FOLDER_PATH)
    /\ res_i' = 1
    /\ folder_id' = NoId
    /\ lookups' = <<>>
    /\ folder_ids' = <<>>
    /\ folder_paths' = {}
    /\ fidx' = 1
    /\ job' = ""
    /\ next_url' = NoLink
    /\ data' = NoData
    /\ midx' = 1
    /\ aidx' = 1
    /\ fetched' = <<>>
    /\ yielded' = <<>>
    /\ fetchFailed' = FALSE
    /\ created' = {}
    /\ steps' = <<>>
    /\ pending' = interrupted
    /\ pc' = "resolve"
    /\ UNCHANGED <<faults, MAIL_FOLDER_PATH, env, sections, ledger, tasks, temp,
                   downloads, relayed, interrupted>>

----------------------------------------------------------------------------
(* Groups of variables left alone *)

configVars == <<MAIL_FOLDER_PATH, env, sections, networked, runNo>>
storeVars == <<ledger, tasks, temp, downloads, relayed, interrupted>>
resolveVars == <<res_path, res_i, folder_id, lookups>>
walkVars == <<folder_ids, folder_paths, fidx, job, next_url, data, midx,
              fetched, yielded, fetchFailed>>
msgVars == <<aidx, steps>>
runVars == <<done, created, pending, prevExit, ledgerAtStart, ledgerAtEntry>>
localVars == <<section_gid, body, filed, status_code>>

CanFail == faults < MaxFaults

\* lines 70-72: a required setting is missing, sys.exit(1) at import
PreflightExit ==
    /\ pc \in Terminal
    /\ runNo < MaxRuns
    /\ ~AllRequired(env)
    /\ runNo' = runNo + 1
    /\ prevExit' = pc
    /\ pc' = "exit1"
    /\ UNCHANGED <<faults, MAIL_FOLDER_PATH, env, sections, networked, storeVars,
                   resolveVars, walkVars, msgVars, done, created, pending,
                   ledgerAtStart, ledgerAtEntry, localVars, walked>>

----------------------------------------------------------------------------
(* get_target_folder_id(token, base_path), one iteration of its loop per step *)

\* lines 122-133: list the children at the current position, pick the match
ResolveStep ==
    /\ pc = "resolve"
    /\ res_i <= Len(res_path)
    /\ LET url == ResolveUrl(folder_id)
           items == FolderListing(url).value
           match == FirstMatch(items, res_path[res_i])
       IN  /\ lookups' = Append(lookups, url)
           /\ IF match = 0
              THEN /\ pc' = "notfound"
                   /\ UNCHANGED <<folder_id, res_i>>
              ELSE /\ folder_id' = items[match]
                   /\ res_i' = res_i + 1
                   /\ pc' = pc
    /\ UNCHANGED <<localVars, walked, res_path, faults, configVars, storeVars, walkVars, msgVars, runVars>>

\* line 128: resp.raise_for_status() raises, nothing in main catches it
ResolveHttpError ==
    /\ pc = "resolve"
    /\ res_i <= Len(res_path)
    /\ CanFail
    /\ faults' = faults + 1
    /\ lookups' = Append(lookups, ResolveUrl(folder_id))
    /\ pc' = "fatal"
    /\ UNCHANGED <<localVars, walked, res_path, res_i, folder_id, configVars, storeVars, walkVars,
                   msgVars, runVars>>

\* lines 134-135: return folder_id
ResolveReturn ==
    /\ pc = "resolve"
    /\ res_i > Len(res_path)
    /\ pc' = "collect"
    /\ UNCHANGED <<localVars, walked, faults, configVars, storeVars, resolveVars, walkVars, msgVars, runVars>>

----------------------------------------------------------------------------
(* main, lines 286-308: collect_folder_ids(base_fid), map_paths(base_path, base_fid) *)

CollectFolders ==
    /\ pc = "collect"
    /\ IF FolderListing(ChildUrl(folder_id)).ok
       THEN /\ folder_ids' = CollectFolderIds(folder_id)
            /\ folder_paths' = MapPaths(res_path, folder_id)
            /\ fidx' = 1
            /\ pc' = "folder"
       ELSE /\ pc' = "fatal"
            /\ UNCHANGED <<folder_ids, folder_paths, fidx>>
    /\ UNCHANGED <<localVars, walked, faults, configVars, storeVars, resolveVars, job, next_url, data,
                   midx, fetched, yielded, fetchFailed, msgVars, runVars>>

\* a childFolders request of either walk answers with an HTTP error
CollectHttpError ==
    /\ pc = "collect"
    /\ CanFail
    /\ faults' = faults + 1
    /\ pc' = "fatal"
    /\ UNCHANGED <<localVars, walked, configVars, storeVars, resolveVars, walkVars, msgVars, runVars>>

----------------------------------------------------------------------------
(* main, lines 311-351: the loop over the folders and the pages of each *)

\* lines 311-325: the next folder, its tags and the first URL of its listing
FolderStart ==
    /\ pc = "folder"
    /\ fidx <= Len(folder_ids)
    /\ job' = JobOfPath(PathOfFolder(folder_paths, folder_ids[fidx]))
    /\ next_url' = PageUrl(folder_ids[fidx], 1)
    /\ fetched' = <<>>
    /\ yielded' = <<>>
    /\ fetchFailed' = FALSE
    /\ pc' = "fetch"
    /\ UNCHANGED <<localVars, walked, faults, configVars, storeVars, resolveVars, folder_ids, folder_paths,
                   fidx, data, midx, msgVars, runVars>>

\* line 351: the for loop over folder_ids is over
RunComplete ==
    /\ pc = "folder"
    /\ fidx > Len(folder_ids)
    /\ pc' = "complete"
    /\ UNCHANGED <<localVars, walked, faults, configVars, storeVars, resolveVars, walkVars, msgVars, runVars>>

\* lines 328-335: the page is fetched
FetchPage ==
    /\ pc = "fetch"
    /\ data' = PageData(next_url)
    /\ fetched' = Append(fetched, next_url)
    /\ midx' = 1
    /\ pc' = "msg"
    /\ UNCHANGED <<localVars, walked, faults, configVars, storeVars, resolveVars, folder_ids, folder_paths,
                   fidx, job, next_url, yielded, fetchFailed, msgVars, runVars>>

\* what is known of a folder when its walk ends
WalkRecord(failed) ==
    [fid |-> folder_ids[fidx], fetched |-> fetched, yielded |-> yielded,
     failed |-> failed]

\* a faulty variant: the HTTPError is not caught and ends the run
FetchHttpErrorAborts ==
    /\ pc = "fetch"
    /\ CanFail
    /\ faults' = faults + 1
    /\ fetchFailed' = TRUE
    /\ walked' = Append(walked, WalkRecord(TRUE))
    /\ pc' = "fatal"
    /\ UNCHANGED <<localVars, configVars, storeVars, resolveVars, folder_ids, folder_paths, fidx,
                   job, next_url, data, midx, fetched, yielded, msgVars, runVars>>

\* lines 329-333: raise_for_status raises HTTPError, logged, break
FetchHttpError ==
    /\ pc = "fetch"
    /\ CanFail
    /\ faults' = faults + 1
    /\ fetchFailed' = TRUE
    /\ walked' = Append(walked, WalkRecord(TRUE))
    /\ fidx' = fidx + 1
    /\ pc' = "folder"
    /\ UNCHANGED <<localVars, configVars, storeVars, resolveVars, folder_ids, folder_paths, job,
                   next_url, data, midx, fetched, yielded, msgVars, runVars>>

\* a faulty variant: the continuation link is not followed
NextUrlDropped(d) == NoLink

\* line 349: next_url = data.get("@odata.nextLink")
NextUrl(d) == d.nextLink

\* lines 336, 349, 327: the page's records are exhausted
PageEnd ==
    /\ pc = "msg"
    /\ midx > Len(data.value)
    /\ next_url' = NextUrl(data)
    /\ IF next_url' = NoLink
       THEN /\ fidx' = fidx + 1
            /\ walked' = Append(walked, WalkRecord(FALSE))
            /\ pc' = "folder"
       ELSE /\ pc' = "fetch"
            /\ UNCHANGED <<fidx, walked>>
    /\ UNCHANGED <<localVars, faults, configVars, storeVars, resolveVars, folder_ids, folder_paths,
                   job, data, midx, fetched, yielded, fetchFailed, msgVars, runVars>>

HasCur == pc \notin Terminal /\ midx <= Len(data.value)
CurMsg == data.value[midx]

\* a faulty variant: the ledger test of line 340 is left out
SkipsWithoutLedger(msg, doneSet) == ~msg.hasBody

\* lines 337-341: the two "continue" tests
Skips(msg, doneSet) == ~msg.hasBody \/ msg.id \in doneSet

MsgSkip ==
    /\ pc = "msg"
    /\ midx <= Len(data.value)
    /\ Skips(CurMsg, done)
    /\ yielded' = Append(yielded, <<next_url, midx>>)
    /\ midx' = midx + 1
    /\ UNCHANGED <<localVars, walked, pc, faults, configVars, storeVars, resolveVars, folder_ids,
                   folder_paths, fidx, job, next_url, data, fetched, fetchFailed,
                   msgVars, runVars>>

\* a faulty variant: the identifier is recorded before the message is processed
MsgProcessRecordsFirst ==
    /\ pc = "msg"
    /\ midx <= Len(data.value)
    /\ ~Skips(CurMsg, done)
    /\ yielded' = Append(yielded, <<next_url, midx>>)
    /\ steps' = <<>>
    /\ ledgerAtEntry' = ledger
    /\ ledger' = Append(ledger, CurMsg.id)
    /\ body' = ExtractBody(CurMsg)
    /\ section_gid' = ChooseSection(Subj(CurMsg), sections)
    /\ filed' = FALSE
    /\ status_code' = 0
    /\ pc' = "create"
    /\ UNCHANGED <<walked, faults, configVars, tasks, temp, downloads, relayed, interrupted,
                   resolveVars, folder_ids, folder_paths, fidx, job, next_url, data,
                   midx, fetched, fetchFailed, aidx, done, created, pending, prevExit,
                   ledgerAtStart>>

\* line 343: process_message is called; lines 139-187: the body and the section
MsgProcess ==
    /\ pc = "msg"
    /\ midx <= Len(data.value)
    /\ ~Skips(CurMsg, done)
    /\ yielded' = Append(yielded, <<next_url, midx>>)
    /\ steps' = <<>>
    /\ ledgerAtEntry' = ledger
    /\ body' = ExtractBody(CurMsg)
    /\ section_gid' = ChooseSection(Subj(CurMsg), sections)
    /\ filed' = FALSE
    /\ status_code' = 0
    /\ pc' = "create"
    /\ UNCHANGED <<walked, faults, configVars, storeVars, resolveVars, folder_ids, folder_paths,
                   fidx, job, next_url, data, midx, fetched, fetchFailed, aidx, done,
                   created, pending, prevExit, ledgerAtStart>>

----------------------------------------------------------------------------
(* process_message and the try/except around it *)

Did(step) == \E i \in 1..Len(steps) : steps[i] = step

InProcess == pc \in {"create", "section", "update", "atts", "download", "write", "upload"}

\* a faulty variant: no try/except, the exception ends the run
CaughtAborts ==
    /\ ledger' = ledger
    /\ interrupted' = IF Did("create") THEN interrupted \cup {CurMsg.id} ELSE interrupted
    /\ midx' = midx
    /\ pc' = "fatal"

\* a faulty variant: the identifier is recorded although processing failed
CaughtRecords ==
    /\ ledger' = Append(ledger, CurMsg.id)
    /\ interrupted' = interrupted
    /\ midx' = midx + 1
    /\ pc' = "msg"

\* lines 345-347: except Exception: log; then sleep and the next record
Caught ==
    /\ ledger' = ledger
    /\ interrupted' = IF Did("create") THEN interrupted \cup {CurMsg.id} ELSE interrupted
    /\ midx' = midx + 1
    /\ pc' = "msg"

\* line 195
CreateTask ==
    /\ pc = "create"
    /\ tasks' = [tasks EXCEPT ![CurMsg.id] = @ + 1]
    /\ created' = created \cup {CurMsg.id}
    /\ steps' = <<"create">>
    /\ pc' = "section"
    /\ UNCHANGED <<localVars, walked, faults, configVars, ledger, temp, downloads, relayed, interrupted,
                   resolveVars, walkVars, aidx, done, pending, prevExit, ledgerAtStart,
                   ledgerAtEntry>>

CreateTaskError ==
    /\ pc = "create"
    /\ CanFail
    /\ faults' = faults + 1
    /\ Caught
    /\ UNCHANGED <<localVars, walked, configVars, tasks, temp, downloads, relayed, resolveVars, folder_ids,
                   folder_paths, fidx, job, next_url, data, fetched, yielded,
                   fetchFailed, msgVars, runVars>>

\* lines 199-209: add_task_for_section returns
AddTaskForSection ==
    /\ pc = "section"
    /\ steps' = Append(steps, "section")
    /\ filed' = TRUE
    /\ pc' = "update"
    /\ UNCHANGED <<section_gid, body, status_code, walked, faults, configVars, storeVars,
                   resolveVars, walkVars, aidx, runVars>>

\* a faulty variant: the exception of add_task_for_section is not caught
AddTaskForSectionErrorRaises ==
    /\ pc = "section"
    /\ CanFail
    /\ faults' = faults + 1
    /\ Caught
    /\ UNCHANGED <<localVars, walked, configVars, tasks, temp, downloads, relayed,
                   resolveVars, folder_ids, folder_paths, fidx, job, next_url, data,
                   fetched, yielded, fetchFailed, msgVars, runVars>>

\* lines 210-216: add_task_for_section raises; the error is logged and swallowed
AddTaskForSectionError ==
    /\ pc = "section"
    /\ CanFail
    /\ faults' = faults + 1
    /\ steps' = Append(steps, "section")
    /\ filed' = FALSE
    /\ pc' = "update"
    /\ UNCHANGED <<section_gid, body, status_code, walked, configVars, storeVars,
                   resolveVars, walkVars, aidx, runVars>>

\* lines 219-227: int(job_num), then update_task
UpdateTask ==
    /\ pc = "update"
    /\ IF IntParses(job)
       THEN /\ steps' = Append(steps, "update")
            /\ aidx' = 1
            /\ pc' = "atts"
            /\ UNCHANGED <<ledger, interrupted, midx>>
       ELSE /\ Caught
            /\ UNCHANGED <<steps, aidx>>
    /\ UNCHANGED <<localVars, walked, faults, configVars, tasks, temp, downloads, relayed, resolveVars,
                   folder_ids, folder_paths, fidx, job, next_url, data, fetched, yielded,
                   fetchFailed, runVars>>

UpdateTaskError ==
    /\ pc = "update"
    /\ IntParses(job)
    /\ CanFail
    /\ faults' = faults + 1
    /\ Caught
    /\ UNCHANGED <<localVars, walked, configVars, tasks, temp, downloads, relayed, resolveVars, folder_ids,
                   folder_paths, fidx, job, next_url, data, fetched, yielded,
                   fetchFailed, msgVars, runVars>>

CurAtt == CurMsg.attachments[aidx]

\* lines 233-238: the two "continue" tests of the attachment loop
AttSelect ==
    /\ pc = "atts"
    /\ aidx <= Len(CurMsg.attachments)
    /\ IF Eligible(CurAtt)
       THEN pc' = "download" /\ UNCHANGED aidx
       ELSE aidx' = aidx + 1 /\ UNCHANGED pc
    /\ UNCHANGED <<localVars, walked, faults, configVars, storeVars, resolveVars, walkVars, steps, runVars>>

\* line 233: the attachment loop is over, process_message returns
AttsDone ==
    /\ pc = "atts"
    /\ aidx > Len(CurMsg.attachments)
    /\ steps' = Append(steps, "atts")
    /\ pc' = "save"
    /\ UNCHANGED <<localVars, walked, faults, configVars, storeVars, resolveVars, walkVars, aidx, runVars>>

\* lines 246-247: the download request, answered with the bytes
Download ==
    /\ pc = "download"
    /\ downloads' = downloads \cup {<<CurMsg.id, CurAtt.name>>}
    /\ status_code' = 200
    /\ pc' = "write"
    /\ UNCHANGED <<section_gid, body, filed, walked, faults, configVars, ledger, tasks, temp, relayed, interrupted,
                   resolveVars, walkVars, msgVars, runVars>>

\* the statuses raise_for_status raises HTTPError for, as the server sends them here
ErrorStatus == {404, 413, 500}

\* a faulty variant: no status is taken for "too large"
IsTooLargeNever(code) == FALSE

\* line 249: r.status_code == 413
IsTooLarge(code) == code = 413

\* lines 248-251: HTTP 413, the attachment is skipped
Download413 ==
    /\ pc = "download"
    /\ CanFail
    /\ faults' = faults + 1
    /\ downloads' = downloads \cup {<<CurMsg.id, CurAtt.name>>}
    /\ \E code \in ErrorStatus : IsTooLarge(code) /\ status_code' = code
    /\ aidx' = aidx + 1
    /\ pc' = "atts"
    /\ UNCHANGED <<section_gid, body, filed, walked, configVars, ledger, tasks, temp, relayed, interrupted, resolveVars,
                   walkVars, steps, runVars>>

\* lines 252-253: any other HTTP error is raised again
DownloadError ==
    /\ pc = "download"
    /\ CanFail
    /\ faults' = faults + 1
    /\ downloads' = downloads \cup {<<CurMsg.id, CurAtt.name>>}
    /\ \E code \in ErrorStatus : ~IsTooLarge(code) /\ status_code' = code
    /\ Caught
    /\ UNCHANGED <<section_gid, body, filed, walked, configVars, tasks, temp, relayed, resolveVars, folder_ids,
                   folder_paths, fidx, job, next_url, data, fetched, yielded,
                   fetchFailed, msgVars, runVars>>

\* lines 254-256: the bytes are written to TEMP_DIR
WriteFile ==
    /\ pc = "write"
    /\ temp' = temp \cup {CurAtt.name}
    /\ pc' = "upload"
    /\ UNCHANGED <<localVars, walked, faults, configVars, ledger, tasks, downloads, relayed, interrupted,
                   resolveVars, walkVars, msgVars, runVars>>

\* lines 254-256: open or write raises; the file may have been created
WriteError ==
    /\ pc = "write"
    /\ CanFail
    /\ faults' = faults + 1
    /\ temp' \in {temp, temp \cup {CurAtt.name}}
    /\ Caught
    /\ UNCHANGED <<localVars, walked, configVars, tasks, downloads, relayed, resolveVars, folder_ids,
                   folder_paths, fidx, job, next_url, data, fetched, yielded,
                   fetchFailed, msgVars, runVars>>

\* lines 257-263: the upload, then os.remove(local)
Upload ==
    /\ pc = "upload"
    /\ relayed' = relayed \cup {<<CurMsg.id, CurAtt.name>>}
    /\ temp' = temp \ {CurAtt.name}
    /\ aidx' = aidx + 1
    /\ pc' = "atts"
    /\ UNCHANGED <<localVars, walked, faults, configVars, ledger, tasks, downloads, interrupted,
                   resolveVars, walkVars, steps, runVars>>

\* a faulty variant: the exception of the upload is not caught
UploadErrorRaises ==
    /\ pc = "upload"
    /\ CanFail
    /\ faults' = faults + 1
    /\ Caught
    /\ UNCHANGED <<localVars, walked, configVars, tasks, temp, downloads, relayed,
                   resolveVars, folder_ids, folder_paths, fidx, job, next_url, data,
                   fetched, yielded, fetchFailed, msgVars, runVars>>

\* lines 261-263: the upload raises, a warning is logged, then os.remove(local)
UploadError ==
    /\ pc = "upload"
    /\ CanFail
    /\ faults' = faults + 1
    /\ temp' = temp \ {CurAtt.name}
    /\ aidx' = aidx + 1
    /\ pc' = "atts"
    /\ UNCHANGED <<localVars, walked, configVars, ledger, tasks, downloads, relayed, interrupted,
                   resolveVars, walkVars, steps, runVars>>

\* save_processed_id, lines 97-100: one line is appended to the file
AppendLine(file, msg_id) == Append(file, msg_id)

\* a faulty variant: the identifier is added to the in-memory set as well
SaveProcessedIdUpdatesDone ==
    /\ pc = "save"
    /\ ledger' = AppendLine(ledger, CurMsg.id)
    /\ done' = done \cup {CurMsg.id}
    /\ interrupted' = interrupted \ {CurMsg.id}
    /\ midx' = midx + 1
    /\ pc' = "msg"
    /\ UNCHANGED <<localVars, walked, faults, configVars, tasks, temp, downloads,
                   relayed, resolveVars, folder_ids, folder_paths, fidx, job, next_url,
                   data, fetched, yielded, fetchFailed, msgVars, created, pending,
                   prevExit, ledgerAtStart, ledgerAtEntry>>

\* line 344
SaveProcessedId ==
    /\ pc = "save"
    /\ ledger' = AppendLine(ledger, CurMsg.id)
    /\ interrupted' = interrupted \ {CurMsg.id}
    /\ midx' = midx + 1
    /\ pc' = "msg"
    /\ UNCHANGED <<localVars, walked, faults, configVars, tasks, temp, downloads, relayed, resolveVars,
                   folder_ids, folder_paths, fidx, job, next_url, data, fetched, yielded,
                   fetchFailed, msgVars, runVars>>

\* line 344 raises (the file cannot be opened or written), caught at line 345
SaveError ==
    /\ pc = "save"
    /\ CanFail
    /\ faults' = faults + 1
    /\ Caught
    /\ UNCHANGED <<localVars, walked, configVars, tasks, temp, downloads, relayed, resolveVars, folder_ids,
                   folder_paths, fidx, job, next_url, data, fetched, yielded,
                   fetchFailed, msgVars, runVars>>

\* the process dies (killed, or an exception main does not catch)
Crash ==
    /\ pc \notin Terminal
    /\ CanFail
    /\ faults' = faults + 1
    /\ interrupted' = IF (InProcess \/ pc = "save") /\ Did("create")
                      THEN interrupted \cup {CurMsg.id} ELSE interrupted
    /\ pc' = "crashed"
    /\ UNCHANGED <<localVars, walked, configVars, ledger, tasks, temp, downloads, relayed, resolveVars,
                   walkVars, msgVars, runVars>>

----------------------------------------------------------------------------

Next ==
    \/ StartRun
    \/ PreflightExit
    \/ ResolveStep
    \/ ResolveHttpError
    \/ ResolveReturn
    \/ CollectFolders
    \/ CollectHttpError
    \/ FolderStart
    \/ RunComplete
    \/ FetchPage
    \/ FetchHttpError
    \/ PageEnd
    \/ MsgSkip
    \/ MsgProcess
    \/ CreateTask
    \/ CreateTaskError
    \/ AddTaskForSection
    \/ AddTaskForSectionError
    \/ UpdateTask
    \/ UpdateTaskError
    \/ AttSelect
    \/ AttsDone
    \/ Download
    \/ Download413
    \/ DownloadError
    \/ WriteFile
    \/ WriteError
    \/ Upload
    \/ UploadError
    \/ SaveProcessedId
    \/ SaveError
    \/ Crash

Spec == Init /\ [][Next]_vars

\* The process is sequential and each of its calls returns (with a result or an
\* exception): a run that can take a step takes one.
SpecFair == Spec /\ WF_vars(Next /\ pc \notin Terminal)

----------------------------------------------------------------------------
(* get_target_folder_id on its own, for every path of up to MaxPathLen names *)

RECURSIVE SeqsUpTo(_, _)
SeqsUpTo(S, n) ==
    IF n = 0 THEN {<<>>}
    ELSE LET shorter == SeqsUpTo(S, n - 1)
         IN  shorter \cup {Append(q, x) : q \in shorter, x \in S}

InitResolve ==
    /\ pc = "resolve"
    /\ runNo = 1
    /\ faults = 0
    /\ MAIL_FOLDER_PATH \in SeqsUpTo(Names, MaxPathLen)
    /\ ledger = <<>>
    /\ tasks = [m \in MsgIds |-> 0]
    /\ temp = {}
    /\ downloads = {}
    /\ relayed = {}
    /\ interrupted = {}
    /\ done = {}
    /\ res_path = MAIL_FOLDER_PATH
    /\ res_i = 1
    /\ folder_id = NoId
    /\ lookups = <<>>
    /\ folder_ids = <<>>
    /\ folder_paths = {}
    /\ fidx = 1
    /\ job = ""
    /\ next_url = NoLink
    /\ data = NoData
    /\ midx = 1
    /\ aidx = 1
    /\ fetched = <<>>
    /\ yielded = <<>>
    /\ fetchFailed = FALSE
    /\ created = {}
    /\ steps = <<>>
    /\ pending = {}
    /\ prevExit = "idle"
    /\ ledgerAtStart = {}
    /\ ledgerAtEntry = <<>>
    /\ env = required_vars
    /\ sections = Sections("secBudget", Unset, "secOrder")
    /\ networked = TRUE
    /\ section_gid = ""
    /\ body = ""
    /\ filed = FALSE
    /\ status_code = 0
    /\ walked = <<>>

NextResolve ==
    \/ ResolveStep
    \/ ResolveHttpError
    \/ ResolveReturn

SpecResolve == InitResolve /\ [][NextResolve]_vars

----------------------------------------------------------------------------
(* One record of a page through main's tests and process_message, for every *)
(* shape of its subject, body node and preview and every section setting.   *)

Subjects ==
    { <<"Q","3"," ","B","u","d","g","e","t"," ","A","p","p","r","o","v","a","l">>,
      <<"B","U","D","G","E","T">>,
      <<"O","r","d","e","r"," ","C","o","n","f","i","r","m","a","t","i","o","n"," ","#","1","2","3">>,
      <<"R","E",":"," ","q","u","o","t","a","t","i","o","n"," ","a","n","d"," ","B","u","d","g","e","t">>,
      <<"Q","u","o","t","a","t","i","o","n"," ","/"," ","o","r","d","e","r"," ","c","o","n","f","i","r","m","a","t","i","o","n">>,
      <<"O","r","d","e","r"," "," ","c","o","n","f","i","r","m","a","t","i","o","n">>,
      <<"H","e","l","l","o">> }

BodyNodes ==
    { BodyNode("dict", TRUE, "content"), BodyNode("dict", TRUE, ""),
      BodyNode("dict", FALSE, ""), BodyNode("null", FALSE, ""),
      BodyNode("absent", FALSE, "") }

MessageInputs ==
    { [id |-> "m1", hasBody |-> b.kind # "absent", attachments |-> <<>>,
       hasSubject |-> hs, subject |-> IF hs THEN sj ELSE <<>>,
       body |-> b, hasPreview |-> p[1], bodyPreview |-> p[2]] :
      hs \in BOOLEAN, sj \in Subjects, b \in BodyNodes,
      p \in {<<FALSE, "">>, <<TRUE, "">>, <<TRUE, "preview">>} }

SectionValues(gid) == {gid, Unset, ""}

SectionChoices ==
    { Sections(b, q, o) : b \in SectionValues("secBudget"),
                          q \in SectionValues("secQuote"),
                          o \in SectionValues("secOrder") }

InitMessage ==
    /\ pc = "msg"
    /\ runNo = 1
    /\ faults = 0
    /\ MAIL_FOLDER_PATH = <<"Inbox", "2024 Jobs", "Nova", "2411001">>
    /\ env = required_vars
    /\ sections \in SectionChoices
    /\ networked = TRUE
    /\ ledger = <<>>
    /\ tasks = [m \in MsgIds |-> 0]
    /\ temp = {}
    /\ downloads = {}
    /\ relayed = {}
    /\ interrupted = {}
    /\ done = {}
    /\ res_path = <<"Inbox", "2024 Jobs">>
    /\ res_i = 3
    /\ folder_id = "fJobs"
    /\ lookups = <<RootUrl, ChildUrl("fInbox")>>
    /\ folder_ids = <<"fJob">>
    /\ folder_paths = {<<"fJob", MAIL_FOLDER_PATH>>}
    /\ fidx = 1
    /\ job = JobOfPath(MAIL_FOLDER_PATH)
    /\ next_url = PageUrl("fJob", 1)
    /\ \E m \in MessageInputs : data = [value |-> <<m>>, nextLink |-> NoLink]
    /\ midx = 1
    /\ aidx = 1
    /\ fetched = <<next_url>>
    /\ yielded = <<>>
    /\ fetchFailed = FALSE
    /\ created = {}
    /\ steps = <<>>
    /\ pending = {}
    /\ prevExit = "idle"
    /\ ledgerAtStart = {}
    /\ ledgerAtEntry = <<>>
    /\ section_gid = ""
    /\ body = ""
    /\ filed = FALSE
    /\ status_code = 0
    /\ walked = <<>>

NextMessage ==
    \/ MsgSkip
    \/ MsgProcess
    \/ CreateTask
    \/ AddTaskForSection
    \/ AddTaskForSectionError
    \/ UpdateTask
    \/ AttsDone
    \/ SaveProcessedId

SpecMessage == InitMessage /\ [][NextMessage]_vars

TypeOK ==
    /\ pc \in Terminal \cup {"resolve", "collect", "folder", "fetch", "msg", "save"}
                \cup {"create", "section", "update", "atts", "download", "write", "upload"}
    /\ runNo \in 0..MaxRuns
    /\ faults \in 0..MaxFaults
    /\ done \subseteq MsgIds
    /\ temp \subseteq {"a1", "a2", "a3", "a4", "a5", "a6", "a7"}
    /\ env \subseteq required_vars
    /\ networked \in BOOLEAN
    /\ filed \in BOOLEAN
    /\ status_code \in {0, 200} \cup ErrorStatus
    /\ Len(walked) <= Len(folder_ids)

----------------------------------------------------------------------------
(* Properties *)

LedgerIds == {ledger[i] : i \in 1..Len(ledger)}

\* C1 (as stated): once a run has completed, the run after it, over the same
\* mailbox and with the ledger file the first left, never calls task creation.
\* It is stated here for the behaviours in which no call has failed.
C1_NoNewTasksOnRerun ==
    (runNo >= 2 /\ prevExit = "complete" /\ faults = 0) => created = {}

\* C1 (amended): a run calls task creation only for messages whose identifier
\* is not in the ledger file as the run found it; a rerun creates tasks only
\* for the messages the earlier runs left unrecorded.
C1_RerunCreatesOnlyUnrecorded ==
    created \cap ledgerAtStart = {}

\* a second run, after a completed first one that recorded m3, has walked the
\* same folders to the end and created no task
C1_Witness ==
    /\ runNo = 2
    /\ prevExit = "complete"
    /\ pc = "complete"
    /\ "m3" \in ledgerAtStart
    /\ created = {}

\* C2 (as stated): every identifier in the ledger file belongs to a message
\* for which exactly one destination task has been created.
C2_ExactlyOneTask ==
    \A m \in LedgerIds : tasks[m] = 1

\* C2 (amended): every identifier in the ledger file belongs to a message for
\* which at least one destination task has been created.
C2_AtLeastOneTask ==
    \A m \in LedgerIds : tasks[m] >= 1

\* a message whose processing was cut short after create_task in the first run
\* is processed again in the second and recorded, with two tasks to its name
C2_Witness ==
    \E m \in LedgerIds : m \in pending /\ tasks[m] = 2 /\ runNo = 2

AllSteps == <<"create", "section", "update", "atts">>

\* processing of the message at hand ends by an exception or by the death of
\* the process, not by the return of process_message and the ledger append
EndsAbnormally ==
    \/ InProcess /\ pc' \notin {"create", "section", "update", "atts", "download",
                                "write", "upload", "save"}
    \/ pc = "save" /\ faults' # faults

\* C3: when processing of a message fails or is cut short after create_task
\* and before the ledger append, the ledger file is left as it was when
\* process_message was entered;
\* and a later run, which reloads the file and does not find the identifier,
\* calls process_message for the message when it comes to it.
C3_AtLeastOnce ==
    /\ [][(EndsAbnormally /\ Did("create")) => ledger' = ledgerAtEntry]_vars
    /\ [][(/\ pc = "msg"
           /\ midx <= Len(data.value)
           /\ CurMsg.id \in pending \ ledgerAtStart
           /\ pc' # "crashed")
          => (pc' = "create" /\ midx' = midx)]_vars

\* the second run is about to create a task again for a message whose
\* processing broke off after create_task in the first run
C3_Witness ==
    /\ runNo = 2
    /\ pc = "create"
    /\ CurMsg.id \in pending
    /\ CurMsg.id \notin LedgerIds
    /\ tasks[CurMsg.id] = 1

\* C4: an identifier is appended to the ledger only once process_message has
\* gone through all its steps for the message, and the ledger never holds the
\* identifier of a message whose processing is under way.
C4_RecordAfterProcessing ==
    /\ pc = "save" => steps = AllSteps
    /\ (InProcess \/ pc = "save") => ledger = ledgerAtEntry
    /\ InProcess => CurMsg.id \notin LedgerIds

\* What the code does: the ordering alone, without the last line of C4.
RecordOrderOfCode ==
    /\ pc = "save" => steps = AllSteps
    /\ (InProcess \/ pc = "save") => ledger = ledgerAtEntry

\* C5: an exception raised inside process_message is caught in main: the
\* ledger file is left as it was and the loop is at the next record of the
\* same page, in the same run.
C5_ErrorIsolation ==
    [][(InProcess /\ pc' \notin {"create", "section", "update", "atts", "download",
                                 "write", "upload", "save", "crashed"})
       => /\ pc' = "msg"
          /\ midx' = midx + 1
          /\ ledger' = ledgerAtEntry
          /\ UNCHANGED <<runNo, fidx, data, next_url>>]_vars

\* m1 failed after its task was created, is not in the ledger, and the loop
\* has gone on to m2, the next record of the page
C5_Witness ==
    /\ pc = "create"
    /\ CurMsg.id = "m2"
    /\ "m1" \in interrupted
    /\ "m1" \notin LedgerIds
    /\ runNo = 1

RECURSIVE RecordsFrom(_, _, _)
\* <<url, index>> of the records of pages k..n of folder f, in chain order
RecordsFrom(f, k, n) ==
    IF k > n THEN <<>>
    ELSE [i \in 1..Len(Pages(f)[k]) |-> <<PageUrl(f, k), i>>] \o RecordsFrom(f, k + 1, n)

PagesUpTo(f, n) == [k \in 1..n |-> PageUrl(f, k)]

\* the folder whose walk has just ended
FolderWalked == folder_ids[fidx - 1]

WalkEnded == pc \in {"folder", "complete"} /\ fidx > 1

\* C6: when the walk of a folder ends without a failed fetch, every page of
\* the chain has been fetched once, in chain order, and the for loop has
\* taken every record once, in page order and in-page order.
C6_PaginationExhaustion ==
    (WalkEnded /\ ~fetchFailed) =>
        /\ fetched = PagesUpTo(FolderWalked, Len(Pages(FolderWalked)))
        /\ yielded = RecordsFrom(FolderWalked, 1, Len(Pages(FolderWalked)))

\* the three pages of folder 2411001 have been walked to the end
C6_Witness ==
    /\ WalkEnded
    /\ ~fetchFailed
    /\ FolderWalked = "fJob"
    /\ Len(fetched) = 3
    /\ Len(yielded) = 4

\* C7: a page fetch answered with an HTTP error ends the walk of that folder
\* only: the ledger file is left as it was, the pages from the failed one on
\* are not fetched, the records of the pages before it have all been taken,
\* and the run goes on with the folder after it.
C7_FetchFailureSkipsFolder ==
    /\ [][(pc = "fetch" /\ pc' \notin {"msg", "crashed"})
          => /\ pc' = "folder"
             /\ fidx' = fidx + 1
             /\ fetchFailed'
             /\ UNCHANGED <<ledger, fetched, yielded, runNo, folder_ids>>]_vars
    /\ []((WalkEnded /\ fetchFailed) =>
            /\ Len(fetched) < Len(Pages(FolderWalked))
            /\ fetched = PagesUpTo(FolderWalked, Len(fetched))
            /\ yielded = RecordsFrom(FolderWalked, 1, Len(fetched)))
    /\ [][(pc = "folder" /\ fetchFailed /\ fidx <= Len(folder_ids) /\ pc' # "crashed")
          => (pc' = "fetch" /\ next_url' = PageUrl(folder_ids[fidx], 1))]_vars

\* the fetch of page 2 of folder 2411001 failed after m1 of page 1 had been
\* recorded, and the loop is at the next folder
C7_Witness ==
    /\ pc = "folder"
    /\ fidx <= Len(folder_ids)
    /\ folder_ids[fidx] = "fJob2"
    /\ fetchFailed
    /\ fetched = <<PageUrl("fJob", 1)>>
    /\ "m1" \in LedgerIds

Range(q) == {q[i] : i \in 1..Len(q)}

\* c is a chain of folders from the root collection down, named as path says
IsChain(c, path) ==
    \A i \in 1..Len(path) :
        /\ DisplayName(c[i]) = path[i]
        /\ IF i = 1 THEN c[i] \in Range(RootFolders)
                    ELSE c[i] \in Range(ChildFolders(c[i - 1]))

Chains(path) == {c \in [1..Len(path) -> FolderIdSet] : IsChain(c, path)}

\* the listings a walk down chain c asks for: the root collection, then the
\* children of each folder of the chain but the last
ListingsAlong(c) == [i \in 1..Len(c) |-> IF i = 1 THEN RootUrl ELSE ChildUrl(c[i - 1])]

\* C8: for a path whose chain of display names is in the folder tree,
\* get_target_folder_id does not fail for want of a match, and what it
\* returns is the identifier of the deepest folder of the chain, after having
\* listed the root collection and then the children of each folder matched.
C8_ResolutionSuccess ==
    (Len(res_path) > 0 /\ Chains(res_path) # {}) =>
        /\ pc # "notfound"
        /\ pc = "collect" =>
             \E c \in Chains(res_path) :
                 /\ folder_id = c[Len(c)]
                 /\ lookups = ListingsAlong(c)

\* the path Inbox / 2024 Jobs / Nova has been resolved to the folder Nova
\* under Inbox / 2024 Jobs, not to the one under Archive
C8_Witness ==
    /\ pc = "collect"
    /\ res_path = <<"Inbox", "2024 Jobs", "Nova">>
    /\ folder_id = "fNova"
    /\ Len(lookups) = 3

\* C9: when a segment of the path matches no child, get_target_folder_id
\* fails at the first such segment, having made no lookup for a later one,
\* and the run ends there: no folder is collected, no page is fetched, no
\* task is created; and a path with such a segment is never resolved.
C9_ResolutionFailure ==
    /\ [](pc = "notfound" =>
            /\ res_i = Len(lookups)
            /\ res_i <= Len(res_path)
            /\ Chains(SubSeq(res_path, 1, res_i)) = {}
            /\ Chains(SubSeq(res_path, 1, res_i - 1)) # {}
            /\ folder_ids = <<>>
            /\ fetched = <<>>
            /\ yielded = <<>>
            /\ created = {})
    /\ []((pc = "collect" \/ folder_ids # <<>>) => Chains(res_path) # {})
    /\ [][pc = "notfound" => (pc' = "resolve" /\ runNo' = runNo + 1)]_vars

\* the first segment of the path Missing / 2024 Jobs matched nothing: one
\* lookup was made and the run is over
C9_Witness ==
    /\ pc = "notfound"
    /\ res_path = <<"Missing", "2024 Jobs">>
    /\ Len(lookups) = 1
    /\ created = {}

AllAttachments == UNION {Range(m.attachments) : m \in {MsgA, Msg1, Msg2, Msg3, Msg4, MsgN}}

AttachmentNamed(n) == CHOOSE a \in AllAttachments : a.name = n

\* the discriminator is that of an embedded-item attachment: the type
\* itemAttachment of the mail provider, in either spelling
MarksEmbeddedItem(t) == t \in {TypeItemCamel, TypeItemPascal}

MayBeRelayed(a) == ~MarksEmbeddedItem(a.type) /\ SizeOf(a) <= 3 * MiB

\* C10: a download request is issued for an attachment if and only if its
\* type discriminator does not mark it as an embedded item and its declared
\* size is at most 3 MiB.
C10_AttachmentEligibility ==
    /\ \A d \in downloads : MayBeRelayed(AttachmentNamed(d[2]))
    /\ pc \in {"atts", "download", "write", "upload"} =>
         \A i \in 1..(aidx - 1) :
             MayBeRelayed(CurMsg.attachments[i])
                 => <<CurMsg.id, CurMsg.attachments[i].name>> \in downloads

\* What the code does: the same with "marked as an embedded item" read as
\* "the discriminator ends with ItemAttachment, in this spelling".
AttachmentPolicyOfCode ==
    /\ \A d \in downloads : Eligible(AttachmentNamed(d[2]))
    /\ pc \in {"atts", "download", "write", "upload"} =>
         \A i \in 1..(aidx - 1) :
             Eligible(CurMsg.attachments[i])
                 => <<CurMsg.id, CurMsg.attachments[i].name>> \in downloads

\* the embedded item a3 of m1, whose discriminator is the provider's
\* itemAttachment, has been requested for download
C10_Witness ==
    <<"m1", "a3">> \in downloads

\* C11 (as stated): every attachment file written to the scratch directory is
\* deleted before process_message ends, on the success path and on the failure
\* paths (a failed write, a failed upload): when the relay of an attachment is
\* left other than by the death of the process, the scratch directory, empty
\* before the write, holds no file of that attachment.
C11_TempFileCleanup ==
    [][ /\ (pc = "write" /\ temp = {} /\ pc' \notin {"upload", "crashed"})
            => temp' = {}
        /\ (pc = "upload" /\ pc' # "crashed")
            => CurAtt.name \notin temp' ]_vars

\* What the code does ensure: once the file is written, it is removed whether
\* the upload succeeds or fails (os.remove follows the try/except of the upload).
TempCleanupOfCode ==
    [][ (pc = "upload" /\ pc' # "crashed")
            => (CurAtt.name \notin temp' /\ pc' = "atts") ]_vars

\* a failed write has left its file behind and the next record is at hand
C11_Witness ==
    /\ pc = "msg"
    /\ temp # {}
    /\ prevExit = "idle"
    /\ "m1" \notin LedgerIds

----------------------------------------------------------------------------

Keywords == <<KwBudget, KwQuotation, KwOrderConfirmation>>
Buckets(secs) == <<secs.budget, secs.quote, secs.order>>

\* the ranks, in the priority order, of the keywords that occur in the
\* lower-cased subject and whose bucket is configured
Winning(subj, secs) ==
    {k \in 1..3 : Contains(Lower(subj), Keywords[k]) /\ Truthy(Buckets(secs)[k])}

\* C12: the section chosen for a message is the bucket of the first keyword, in
\* the order budget > quotation > order confirmation, that occurs in the
\* lower-cased subject and whose bucket is configured; it is the default section
\* when there is no such keyword. One section is chosen, whatever the number of
\* keywords in the subject.
C12_RoutingBucket ==
    InProcess =>
        LET w == Winning(Subj(CurMsg), sections)
        IN  section_gid = IF w = {} THEN sections.default
                          ELSE Buckets(sections)[CHOOSE k \in w : \A j \in w : k <= j]

\* "budget" occurs but its bucket is not configured: the keyword is passed over
\* and the task goes to the quotation bucket
C12_Witness ==
    /\ pc = "update"
    /\ filed
    /\ Contains(Lower(Subj(CurMsg)), KwBudget)
    /\ Contains(Lower(Subj(CurMsg)), KwQuotation)
    /\ ~Truthy(sections.budget)
    /\ section_gid = "secQuote"

----------------------------------------------------------------------------

\* the structured body is present with content
StructuredContent(msg) ==
    msg.body.kind = "dict" /\ msg.body.hasContent /\ msg.body.content # ""

\* the preview field of the record ("" when it has none)
PreviewOf(msg) == IF msg.hasPreview THEN msg.bodyPreview ELSE ""

\* C13 (as stated): a message whose structured body is present with content
\* uses that content; a message whose structured body is missing, lacks the
\* content key or is empty uses its preview field; and none of these shapes
\* makes the message go without a task: once main has gone past a record that is
\* not in the ledger, with no call failed and a job number that parses, the
\* record has a task.
C13_BodyFallback ==
    /\ InProcess =>
         body = IF StructuredContent(CurMsg) THEN CurMsg.body.content
                ELSE PreviewOf(CurMsg)
    /\ (pc = "msg" /\ midx > 1 /\ midx - 1 <= Len(data.value) /\ faults = 0
            /\ IntParses(job) /\ data.value[midx - 1].id \notin done)
         => tasks[data.value[midx - 1].id] > 0

\* What the code does: the preview is used only for a body value that is there
\* and is not a JSON object; an object without content gives the empty text; a
\* record without the "body" key never reaches process_message.
BodyExtractionOfCode ==
    InProcess =>
        /\ CurMsg.body.kind # "absent"
        /\ CurMsg.body.kind = "null" => body = PreviewOf(CurMsg)
        /\ (CurMsg.body.kind = "dict" /\ CurMsg.body.hasContent)
             => body = CurMsg.body.content
        /\ (CurMsg.body.kind = "dict" /\ ~CurMsg.body.hasContent) => body = ""

\* a task has been created with the empty text for a record whose body object
\* has no content key and whose preview is not empty
C13_Witness ==
    /\ pc = "section"
    /\ CurMsg.body.kind = "dict"
    /\ ~CurMsg.body.hasContent
    /\ PreviewOf(CurMsg) # ""
    /\ body = ""
    /\ tasks[CurMsg.id] = 1

----------------------------------------------------------------------------

\* C14: in an environment in which a required setting is absent, every start
\* of the process ends in the exit with status 1, and no network call is made:
\* no token exchange, no folder lookup, no message fetch, no download, no task.
C14_PreflightCheck ==
    env # required_vars =>
        /\ (runNo = 0 /\ pc = "idle") \/ (runNo > 0 /\ pc = "exit1")
        /\ ~networked
        /\ lookups = <<>>
        /\ fetched = <<>>
        /\ downloads = {}
        /\ \A m \in MsgIds : tasks[m] = 0

\* the process has been started twice with one required setting missing
C14_Witness ==
    /\ env = required_vars \ {"ASANA_PAT"}
    /\ pc = "exit1"
    /\ prevExit = "exit1"
    /\ runNo = 2

----------------------------------------------------------------------------

\* C15: a message whose identifier is in the ledger file read at the start of
\* the run is never passed to process_message in that run: the message being
\* processed or recorded is never one of these, and the step main takes on such
\* a record goes to the next record without a task created, a download
\* requested or a line appended.
C15_LedgerCheckBeforeProcessing ==
    /\ []((InProcess \/ pc = "save") => CurMsg.id \notin ledgerAtStart)
    /\ [][ (pc = "msg" /\ HasCur /\ CurMsg.id \in ledgerAtStart /\ pc' # "crashed")
              => /\ pc' = "msg"
                 /\ midx' = midx + 1
                 /\ tasks' = tasks
                 /\ downloads' = downloads
                 /\ ledger' = ledger ]_vars

\* the second run has gone past m1, which the first run recorded
C15_Witness ==
    /\ runNo = 2
    /\ pc = "msg"
    /\ next_url = PageUrl("fJob", 1)
    /\ midx = 2
    /\ "m1" \in ledgerAtStart
    /\ tasks["m1"] = 1
    /\ created = {}

----------------------------------------------------------------------------

\* C16: the step that files the task, whether add_task_for_section returns or
\* raises, is followed by the custom-field update of the same message with the
\* task in place; while a message whose task could not be filed is processed
\* its task exists; and the ledger step of such a message, unless it fails
\* itself, appends the identifier.
C16_FilingFailureNonFatal ==
    /\ [][ (pc = "section" /\ pc' # "crashed")
              => /\ pc' = "update"
                 /\ midx' = midx
                 /\ tasks' = tasks
                 /\ ledger' = ledger ]_vars
    /\ []((pc \in {"update", "atts", "download", "write", "upload", "save"} /\ ~filed)
              => tasks[CurMsg.id] > 0)
    /\ [][ (pc = "save" /\ ~filed /\ faults' = faults)
              => (ledger' = Append(ledger, CurMsg.id) /\ pc' = "msg") ]_vars

\* m1 has gone through all the steps with its task unfiled and is recorded
C16_Witness ==
    /\ runNo = 1
    /\ pc = "msg"
    /\ next_url = PageUrl("fJob", 1)
    /\ midx = 2
    /\ ~filed
    /\ Did("atts")
    /\ ledger = <<"m1">>
    /\ tasks["m1"] = 1

----------------------------------------------------------------------------

\* C17: when the download of an attachment is answered with HTTP 413, the
\* attachment is skipped (nothing written, nothing uploaded) and the attachment
\* loop of the same message goes on with the next attachment; when it is
\* answered with another HTTP error status, process_message is left by the
\* exception: main goes to the next record and the ledger gets no line.
C17_DownloadFailurePolicy ==
    [][ (pc = "download" /\ pc' # "crashed")
          => /\ status_code' = 413
                  => /\ pc' = "atts"
                     /\ aidx' = aidx + 1
                     /\ midx' = midx
                     /\ temp' = temp
                     /\ relayed' = relayed
             /\ status_code' \in (ErrorStatus \ {413})
                  => /\ pc' = "msg"
                     /\ midx' = midx + 1
                     /\ ledger' = ledger ]_vars

\* the download of a1 was answered with 413 and the loop has reached the
\* download of a3 of the same message
C17_Witness ==
    /\ pc = "download"
    /\ CurMsg.id = "m1"
    /\ CurAtt.name = "a3"
    /\ status_code = 413
    /\ <<"m1", "a1">> \in downloads
    /\ relayed = {}

----------------------------------------------------------------------------

\* an attachment of the message at hand was downloaded and is not on a task
MissingAttachment ==
    \E i \in 1..Len(CurMsg.attachments) :
        <<CurMsg.id, CurMsg.attachments[i].name>> \in downloads \ relayed

\* C18: the upload step of an attachment, whether the upload succeeds or
\* raises, is followed by the attachment loop of the same message at the next
\* attachment; and the ledger step of a message with attachments missing from
\* its task, unless it fails itself, appends the identifier.
C18_UploadFailureNonFatal ==
    /\ [][ (pc = "upload" /\ pc' # "crashed")
              => /\ pc' = "atts"
                 /\ aidx' = aidx + 1
                 /\ midx' = midx
                 /\ steps' = steps
                 /\ ledger' = ledger ]_vars
    /\ [][ (pc = "save" /\ MissingAttachment /\ faults' = faults)
              => (ledger' = Append(ledger, CurMsg.id) /\ pc' = "msg") ]_vars

\* m1 is recorded in its first processing although the uploads of a1 and a3,
\* both downloaded with status 200, failed
C18_Witness ==
    /\ runNo = 1
    /\ pc = "msg"
    /\ next_url = PageUrl("fJob", 1)
    /\ midx = 2
    /\ ledger = <<"m1">>
    /\ status_code = 200
    /\ {<<"m1", "a1">>, <<"m1", "a3">>} \subseteq downloads
    /\ relayed = {}
    /\ temp = {}

----------------------------------------------------------------------------

RECURSIVE Subtree(_)
\* the folders of the tree under f, f included
Subtree(f) ==
    {f} \cup UNION {Subtree(ChildFolders(f)[i]) : i \in 1..Len(ChildFolders(f))}

\* C19: a run that has started eventually ends; and when it ends without a
\* top-level error, every folder of the tree under the base folder has been
\* walked, every page fetched for a folder has had all its records taken, in
\* order, and a folder none of whose fetches failed has had every page of its
\* chain fetched, whatever failed in the processing of the messages.
C19_RunToExhaustion ==
    /\ (pc \notin Terminal) ~> (pc \in Terminal)
    /\ [](pc = "complete" =>
            /\ {walked[i].fid : i \in 1..Len(walked)} = Subtree(folder_id)
            /\ \A i \in 1..Len(walked) :
                 LET w == walked[i]
                     n == Len(w.fetched)
                 IN  /\ w.fetched = PagesUpTo(w.fid, n)
                     /\ w.yielded = RecordsFrom(w.fid, 1, n)
                     /\ ~w.failed => n = Len(Pages(w.fid)))

\* a run has ended after a failed fetch of the second page of folder 2411001
\* and a failure in the processing of m1: the other folders and messages are done
C19_Witness ==
    /\ pc = "complete"
    /\ runNo = 1
    /\ Len(walked) = 4
    /\ walked[3].fid = "fJob"
    /\ walked[3].failed
    /\ Len(walked[3].fetched) = 1
    /\ "m1" \in interrupted
    /\ {"m2", "m4"} \subseteq LedgerIds

----------------------------------------------------------------------------

\* main is in the walk of a folder whose display-name path has fewer than 4 segments
InShallowFolder ==
    /\ pc \in {"fetch", "msg", "save"} \/ InProcess
    /\ fidx <= Len(folder_ids)
    /\ Len(PathOfFolder(folder_paths, folder_ids[fidx])) < 4

\* C20: in the walk of a folder whose path has fewer than 4 segments the job
\* tag is empty and no message gets past the custom-field update; the update
\* step of a message of such a folder finds the task created and ends the
\* processing of the message by the exception of the integer conversion, with
\* no attachment requested; and no step taken in such a folder appends a line
\* to the ledger, in any run.
C20_ShallowFolders ==
    /\ [](InShallowFolder =>
            /\ job = ""
            /\ pc \notin {"atts", "download", "write", "upload", "save"})
    /\ [][ (InShallowFolder /\ pc = "update" /\ pc' # "crashed")
              => /\ Did("create")
                 /\ tasks[CurMsg.id] > 0
                 /\ pc' = "msg"
                 /\ midx' = midx + 1
                 /\ downloads' = downloads ]_vars
    /\ [][ InShallowFolder => ledger' = ledger ]_vars

\* two runs without any failed call have each created a task for mA, the
\* message of the base folder (path of 2 segments), and neither has recorded it
C20_Witness ==
    /\ runNo = 2
    /\ faults = 0
    /\ pc = "msg"
    /\ fidx <= Len(folder_ids)
    /\ folder_ids[fidx] = "fJobs"
    /\ midx = 2
    /\ tasks["mA"] = 2
    /\ "mA" \notin LedgerIds
    /\ "m1" \in LedgerIds

----------------------------------------------------------------------------

\* the number of lines of the file that hold the identifier
LinesOf(file, id) == Cardinality({i \in 1..Len(file) : file[i] = id})

\* C21: during a run the in-memory set is the set of the identifiers that were
\* in the ledger file when the run started, and no step of the run changes it;
\* a step that changes the ledger file appends one line to it; and a record
\* with a body whose identifier was not in the file at startup is handed to
\* process_message, whether or not the file holds the identifier by now: an
\* identifier delivered twice in one run is processed twice.
C21_DoneLoadedOnce ==
    /\ [](pc \notin {"idle", "exit1"} => done = ledgerAtStart)
    /\ [][ runNo' = runNo => done' = done ]_vars
    /\ [][ ledger' # ledger
              => /\ pc = "save"
                 /\ ledger' = Append(ledger, CurMsg.id) ]_vars
    /\ [][ (pc = "msg" /\ HasCur /\ CurMsg.hasBody /\ CurMsg.id \notin ledgerAtStart
               /\ pc' # "crashed")
              => pc' = "create" ]_vars

\* m1, listed on pages 1 and 3 of folder 2411001, has been processed and
\* recorded twice in the first run
C21_Witness ==
    /\ runNo = 1
    /\ pc = "msg"
    /\ next_url = PageUrl("fJob", 3)
    /\ midx = 2
    /\ done = {}
    /\ tasks["m1"] = 2
    /\ LinesOf(ledger, "m1") = 2

====
